---------------------------- MODULE Spec2Model ----------------------------
(***************************************************************************)
(* A model of the Supply Chain Resilience analyzer (src/src/analyzer.py):  *)
(* the record normalizer, the two-step price collector, the risk scorer,   *)
(* the region aggregator, the commodity analyzer and the batch runner; and *)
(* of the alert path that selects reports by severity (src/src/server.py,  *)
(* src/src/agent.py) and formats the alert body (src/src/alerts.py).       *)
(*                                                                         *)
(* Numbers.  A price is a float.  The model writes a finite price as a     *)
(* whole number of price units, [fin |-> TRUE, v |-> n], and the three     *)
(* non-finite floats as INF, NINF and NAN.  The coefficient of variation   *)
(* is scale free, so the unit does not matter.  A risk score, which the    *)
(* code rounds to 4 decimals, is a whole number of 1/10000; a mean price,  *)
(* rounded to 2 decimals, is a whole number of 1/100 of a price unit.      *)
(* Python's None is the record None, a present value v is Some(v).         *)
(***************************************************************************)
EXTENDS Integers, Sequences, FiniteSets, TLC

VARIABLES
    pc,          \* the position of the single thread of control
    entry,       \* the operation that was called
    \* analyze_all
    i,           \* index (from 1) of the commodity the loop is at
    results,     \* the list of reports built so far
    allLog,      \* history: the calls and sleeps of the analyze_all loop
    \* fetch_price_records
    size,        \* its size argument
    codes,       \* the product codes search_product_codes returned
    per_code,    \* the size asked of each per-code query
    k,           \* index (from 1) of the code the loop is at
    out,         \* the records accumulated so far
    records,     \* the value fetch_price_records returned
    codeLog,     \* history: the queries and sleeps of the per-code loop
    queried,     \* history: the normalized result of each per-code query
    \* fetch_price_records_by_code, called on its own
    response,    \* the upstream response to the pricing query
    normalized,  \* the value it returned
    \* compute_risk, called on its own
    prices,      \* its argument
    risk,        \* the value it returned
    \* compute_region_risks, called on its own
    region_in,   \* its arguments: records, level, min_samples, limit
    region_rows, \* the value it returned
    \* send_supply_chain_alert (server.py) and main (agent.py)
    commodities,      \* the reports the alert path starts from
    include_warnings, \* the filter mode: FALSE is CRITICAL-only
    configured,       \* a channel is configured / ALERT_EMAIL is set
    filtered,         \* the reports the selector returned
    body              \* the alert body handed to the channel, or None

vars == <<pc, entry, i, results, allLog, size, codes, per_code, k, out,
          records, codeLog, queried, response, normalized, prices, risk,
          region_in, region_rows, commodities, include_warnings, configured,
          filtered, body>>

allVars == <<i, results, allLog>>
collectVars == <<size, codes, per_code, k, out, records, codeLog, queried>>
byCodeVars == <<response, normalized>>
riskVars == <<prices, risk>>
regionVars == <<region_in, region_rows>>
alertVars == <<commodities, include_warnings, configured, filtered, body>>

-----------------------------------------------------------------------------
(* Generic helpers *)

Range(s) == {s[x] : x \in DOMAIN s}

Min(a, b) == IF a < b THEN a ELSE b

Max(a, b) == IF a > b THEN a ELSE b

\* Python's s[:n] for n >= 0
Take(s, n) == SubSeq(s, 1, Min(n, Len(s)))

SeqsUpTo(S, n) == UNION {[1..m -> S] : m \in 0..n}

None == [some |-> FALSE, v |-> 0]

Some(x) == [some |-> TRUE, v |-> x]

\* floats
Fl(n) == [fin |-> TRUE, v |-> n]

INF == [fin |-> FALSE, v |-> 1]

NINF == [fin |-> FALSE, v |-> -1]

NAN == [fin |-> FALSE, v |-> 0]

-----------------------------------------------------------------------------
(* JSON values of an upstream response.  t is the JSON type; "bigint" is   *)
(* an integer literal too large for a float, "inf" and "nan" the literals  *)
(* Infinity and NaN, which Python's json accepts.                          *)

J(t, s, n) == [t |-> t, s |-> s, n |-> n]

JNull == J("null", "", 0)

JStr(s) == J("str", s, 0)

JNum(n) == J("num", "", n)

JList == J("list", "", 0)

JBigInt == J("bigint", "", 0)

JInf == J("inf", "", 1)

JNaN == J("nan", "", 0)

\* Python truthiness, as used by `x or default`
Truthy(j) ==
    CASE j.t = "null" -> FALSE
      [] j.t = "str" -> j.s # ""
      [] j.t = "num" -> j.n # 0
      [] OTHER -> TRUE

\* str.strip() on the strings of the model
Strip(s) ==
    CASE s = " EUR " -> "EUR"
      [] s = " Paris" -> "Paris"
      [] s = "  " -> ""
      [] OTHER -> s

\* float(s) for a string s: the number it spells, or ValueError
StrToFloat(s) ==
    CASE s = "10" -> [t |-> "ok", f |-> Fl(10)]
      [] s = " 30 " -> [t |-> "ok", f |-> Fl(30)]
      [] s = "inf" -> [t |-> "ok", f |-> INF]
      [] s = "-inf" -> [t |-> "ok", f |-> NINF]
      [] s = "nan" -> [t |-> "ok", f |-> NAN]
      [] OTHER -> [t |-> "ValueError", f |-> NAN]

\* float(price): a float, the TypeError or ValueError the loop catches, or
\* the OverflowError it does not
ToFloat(price) ==
    CASE price.t = "num" -> [t |-> "ok", f |-> Fl(price.n)]
      [] price.t = "inf" -> [t |-> "ok", f |-> IF price.n > 0 THEN INF ELSE NINF]
      [] price.t = "nan" -> [t |-> "ok", f |-> NAN]
      [] price.t = "str" -> StrToFloat(price.s)
      [] price.t = "bigint" -> [t |-> "OverflowError", f |-> NAN]
      [] OTHER -> [t |-> "TypeError", f |-> NAN]

\* (x or "").strip(): the stripped string, or AttributeError when x is a
\* truthy value that is no string
OrEmptyStrip(x) ==
    IF ~Truthy(x) THEN [t |-> "ok", s |-> ""]
    ELSE IF x.t = "str" THEN [t |-> "ok", s |-> Strip(x.s)]
    ELSE [t |-> "AttributeError", s |-> ""]

NoRecord ==
    [price |-> NAN, currency |-> "", country |-> "", city |-> "", date |-> "",
     product_code |-> ""]

Raise == [t |-> "raise", rec |-> NoRecord]

Skip == [t |-> "skip", rec |-> NoRecord]

OrUnknown(s) == IF s = "" THEN "Unknown" ELSE s

\* (item.get("location") or {}).get(field): a JSON value, None (JNull) when
\* the location or the field is missing, or AttributeError when the location
\* is a truthy value that is no object
LocationField(item, field) ==
    CASE item.location.t = "dict" -> [t |-> "ok", j |-> item.location[field]]
      [] item.location.t = "null" -> [t |-> "ok", j |-> JNull]
      [] OTHER -> [t |-> "AttributeError", j |-> JNull]

\* One iteration of the loop of fetch_price_records_by_code over items:
\* a record appended, the item skipped (continue), or an exception that
\* leaves the loop
NormalizeItem(item, product_code) ==
    IF item.t # "dict" THEN Raise
    ELSE IF item.price.t = "null" THEN Skip
    ELSE LET pf == ToFloat(item.price)
             cur == OrEmptyStrip(item.currency)
             co == LocationField(item, "country")
             ci == LocationField(item, "city")
             country == OrEmptyStrip(co.j)
             city == OrEmptyStrip(ci.j)
             date == OrEmptyStrip(item.date)
         IN  IF pf.t \in {"TypeError", "ValueError"} THEN Skip
             ELSE IF pf.t # "ok" THEN Raise
             ELSE IF cur.t # "ok" \/ co.t # "ok" \/ country.t # "ok"
                     \/ ci.t # "ok" \/ city.t # "ok" \/ date.t # "ok"
                  THEN Raise
             ELSE [t |-> "rec",
                   rec |-> [price |-> pf.f,
                            currency |-> cur.s,
                            country |-> OrUnknown(country.s),
                            city |-> OrUnknown(city.s),
                            date |-> date.s,
                            product_code |-> product_code]]

RECURSIVE NormalizeLoop(_, _, _)
\* the loop over the items its, with the records appended so far: the final
\* list, or "raise" when an iteration raised
NormalizeLoop(its, product_code, acc) ==
    IF its = <<>> THEN [t |-> "ok", recs |-> acc]
    ELSE LET r == NormalizeItem(Head(its), product_code)
         IN  CASE r.t = "raise" -> [t |-> "raise", recs |-> <<>>]
               [] r.t = "skip" -> NormalizeLoop(Tail(its), product_code, acc)
               [] OTHER ->
                    NormalizeLoop(Tail(its), product_code, Append(acc, r.rec))

\* fetch_price_records_by_code: resp is what the pricing source answered,
\* "error" for a transport failure, a non-2xx status or malformed JSON.  The
\* whole body is inside one try, so any exception gives [].
fetch_price_records_by_code(product_code, resp) ==
    IF resp.t # "ok" THEN <<>>
    ELSE LET r == NormalizeLoop(resp.items, product_code, <<>>)
         IN  IF r.t = "raise" THEN <<>> ELSE r.recs

-----------------------------------------------------------------------------
(* statistics.mean, statistics.stdev and compute_risk.  For finite prices  *)
(* x1..xn with sum S and sum of squares Q the code computes, in exact      *)
(* rational arithmetic, mean = S/n and variance = (nQ - S^2) / (n(n-1));   *)
(* so cv^2 = (stdev/mean)^2 = n(nQ - S^2) / ((n-1) S^2), kept here as the  *)
(* fraction num/den.                                                       *)

RECURSIVE Sum(_)
Sum(s) == IF s = <<>> THEN 0 ELSE Head(s) + Sum(Tail(s))

RECURSIVE SumSq(_)
SumSq(s) == IF s = <<>> THEN 0 ELSE Head(s) * Head(s) + SumSq(Tail(s))

AllFinite(ps) == \A x \in DOMAIN ps : ps[x].fin

Values(ps) == [x \in DOMAIN ps |-> ps[x].v]

\* statistics.mean of a non-empty list of floats, as a float-like record:
\* finite means are the exact fraction num/den
Mean(ps) ==
    LET hasNan == \E x \in DOMAIN ps : ps[x] = NAN
        hasInf == \E x \in DOMAIN ps : ps[x] = INF
        hasNinf == \E x \in DOMAIN ps : ps[x] = NINF
    IN  CASE hasNan \/ (hasInf /\ hasNinf) -> [t |-> "nan", num |-> 0, den |-> 1]
          [] hasInf -> [t |-> "inf", num |-> 1, den |-> 1]
          [] hasNinf -> [t |-> "inf", num |-> -1, den |-> 1]
          [] OTHER -> [t |-> "fin", num |-> Sum(Values(ps)), den |-> Len(ps)]

\* mutant: only a zero mean is refused
MeanIsZero(m) == m.t = "fin" /\ m.num = 0

\* mean_val <= 0
MeanLeqZero(m) ==
    CASE m.t = "nan" -> FALSE
      [] OTHER -> m.num <= 0

\* cv of finite prices: cv^2 as num/den, and whether cv is positive (the
\* mean is).  den = 0 is a division by zero.
Cv2(ps) ==
    LET n == Len(ps)
        S == Sum(Values(ps))
        Q == SumSq(Values(ps))
    IN  [num |-> n * (n * Q - S * S), den |-> (n - 1) * S * S, pos |-> S > 0]

\* mutant: the threshold is not strict
CvAtLeastCritical(c) == c.pos /\ 4 * c.num >= c.den

\* cv > 0.5, that is cv > 0 and 4 cv^2 > 1
CvAboveCritical(c) == c.pos /\ 4 * c.num > c.den

\* cv > 0.3, that is cv > 0 and 100 cv^2 > 9; for whole numbers a > 9b/100
\* is a > floor(9b/100)
CvAboveWarning(c) == c.pos /\ c.num > (9 * c.den) \div 100

\* The base-100 digits of a natural number, most significant first
RECURSIVE Pairs(_)
Pairs(m) == IF m < 100 THEN <<m>> ELSE Append(Pairs(m \div 100), m % 100)

\* The first cnt base-100 digits of the fraction r/den, for 0 <= r < den
RECURSIVE FracPairs(_, _, _)
FracPairs(r, den, cnt) ==
    IF cnt = 0 THEN <<>>
    ELSE LET d1 == (10 * r) \div den
             r1 == (10 * r) % den
             d2 == (10 * r1) \div den
             r2 == (10 * r1) % den
         IN  <<10 * d1 + d2>> \o FracPairs(r2, den, cnt - 1)

\* The square root, rounded down, of the number whose base-100 digits are
\* ds, digit by digit: root and rem are the root and the remainder so far
RECURSIVE SqrtDigits(_, _, _)
SqrtDigits(ds, root, rem) ==
    IF ds = <<>> THEN root
    ELSE LET cur == 100 * rem + Head(ds)
             d == CHOOSE x \in 0..9 :
                    /\ (20 * root + x) * x <= cur
                    /\ x < 9 => (20 * root + x + 1) * (x + 1) > cur
         IN  SqrtDigits(Tail(ds), 10 * root + d, cur - (20 * root + d) * d)

\* round(cv, 4) in units of 1/10000: with t = floor(20000 |cv|), the nearest
\* whole number to 10000 |cv| is (t + 1) div 2
RoundCv(c) ==
    LET whole == (4 * c.num) \div c.den
        rest == (4 * c.num) % c.den
        t == SqrtDigits(Pairs(whole) \o FracPairs(rest, c.den, 4), 0, 0)
    IN  IF c.pos THEN (t + 1) \div 2 ELSE 0 - ((t + 1) \div 2)

NoData == [risk_score |-> None, status |-> "NO_DATA"]

\* The tier of a cv the code has computed, and the rounded score with it
Tier(c) ==
    IF CvAboveCritical(c) THEN [risk_score |-> Some(RoundCv(c)), status |-> "CRITICAL"]
    ELSE IF CvAboveWarning(c) THEN [risk_score |-> Some(RoundCv(c)), status |-> "WARNING"]
    ELSE [risk_score |-> Some(RoundCv(c)), status |-> "STABLE"]

\* compute_risk.  statistics.stdev raises on a non-finite price (Python 3.11
\* and later) and the division on a zero mean; the except clause turns both
\* into NO_DATA.
compute_risk(ps) ==
    IF Len(ps) < 2 THEN NoData
    ELSE LET mean_val == Mean(ps)
         IN  IF MeanLeqZero(mean_val) THEN NoData
             ELSE IF ~AllFinite(ps) THEN NoData
             ELSE IF Cv2(ps).den = 0 THEN NoData
             ELSE Tier(Cv2(ps))

-----------------------------------------------------------------------------
(* search_product_codes *)

\* str.isdigit() on the strings of the model
IsDigit(s) == s \in {"111", "222", "333"}

\* code = (p.get("code") or "").strip() for each product, keeping the codes
\* that are digits: the list, or "raise" when a product or its code has an
\* unexpected shape
RECURSIVE ProductCodes(_)
ProductCodes(products) ==
    IF products = <<>> THEN [t |-> "ok", codes |-> <<>>]
    ELSE LET code == OrEmptyStrip(Head(products))
             rest == ProductCodes(Tail(products))
         IN  IF code.t # "ok" \/ rest.t # "ok" THEN [t |-> "raise", codes |-> <<>>]
             ELSE IF code.s # "" /\ IsDigit(code.s)
                  THEN [t |-> "ok", codes |-> <<code.s>> \o rest.codes]
             ELSE rest

\* de-dupe while preserving order
RECURSIVE Dedupe(_, _)
Dedupe(cs, seen) ==
    IF cs = <<>> THEN <<>>
    ELSE IF Head(cs) \in seen THEN Dedupe(Tail(cs), seen)
    ELSE <<Head(cs)>> \o Dedupe(Tail(cs), seen \cup {Head(cs)})

\* search_product_codes: answer is what the product search answered, a
\* product being written as its "code" field
search_product_codes(answer, limit) ==
    IF answer.t # "ok" THEN <<>>
    ELSE LET r == ProductCodes(answer.products)
         IN  IF r.t # "ok" THEN <<>> ELSE Take(Dedupe(r.codes, {}), limit)

-----------------------------------------------------------------------------
(* compute_region_risks *)

_region_key_country(record) == OrUnknown(record.country)

_region_key_city(record) ==
    OrUnknown(record.city) \o ", " \o OrUnknown(record.country)

key_fn(level, record) ==
    IF level = "country" THEN _region_key_country(record)
    ELSE _region_key_city(record)

\* The keys of groups, in the order the dict first saw them
RECURSIVE GroupKeys(_, _, _)
GroupKeys(recs, level, seen) ==
    IF recs = <<>> THEN <<>>
    ELSE LET key == key_fn(level, Head(recs))
         IN  IF key \in seen THEN GroupKeys(Tail(recs), level, seen)
             ELSE <<key>> \o GroupKeys(Tail(recs), level, seen \cup {key})

\* groups[key]: the prices of the records with that key, in record order
RECURSIVE GroupPrices(_, _, _)
GroupPrices(recs, level, key) ==
    IF recs = <<>> THEN <<>>
    ELSE (IF key_fn(level, Head(recs)) = key THEN <<Head(recs).price>> ELSE <<>>)
         \o GroupPrices(Tail(recs), level, key)

\* floor(a/b + 1/2) for b > 0
RoundDiv(a, b) == (2 * a + b) \div (2 * b)

\* round(statistics.mean(ps), 2), in units of 1/100, or the non-finite mean
MeanPrice(ps) ==
    LET m == Mean(ps)
    IN  IF m.t = "fin" THEN [t |-> "fin", v |-> RoundDiv(100 * m.num, m.den)]
        ELSE [t |-> m.t, v |-> m.num]

\* mutant: the gate is off by one
TooFewSamplesOffByOne(ps, min_samples) == Len(ps) < min_samples - 1

\* len(prices) < min_samples: the group is dropped
TooFewSamples(ps, min_samples) == Len(ps) < min_samples

RegionRow(region, ps) ==
    LET r == compute_risk(ps)
    IN  [region |-> region,
         mean_price |-> IF ps = <<>> THEN None ELSE Some(MeanPrice(ps)),
         risk_score |-> r.risk_score,
         status |-> r.status,
         sample_size |-> Len(ps)]

RECURSIVE RegionRows(_, _, _, _)
RegionRows(keys, recs, level, min_samples) ==
    IF keys = <<>> THEN <<>>
    ELSE LET ps == GroupPrices(recs, level, Head(keys))
         IN  (IF TooFewSamples(ps, min_samples) THEN <<>>
              ELSE <<RegionRow(Head(keys), ps)>>)
             \o RegionRows(Tail(keys), recs, level, min_samples)

\* mutant: scores ascending
SortsBeforeAscending(a, b) ==
    LET an == ~a.risk_score.some
        bn == ~b.risk_score.some
        as == IF an THEN 0 ELSE a.risk_score.v
        bs == IF bn THEN 0 ELSE b.risk_score.v
    IN  \/ ~an /\ bn
        \/ an = bn /\ as < bs
        \/ an = bn /\ as = bs /\ a.sample_size > b.sample_size

\* The sort key (risk_score is None, -(risk_score or 0.0), -sample_size),
\* compared as Python compares tuples: a sorts strictly before b
SortsBefore(a, b) ==
    LET an == ~a.risk_score.some
        bn == ~b.risk_score.some
        as == IF an THEN 0 ELSE a.risk_score.v
        bs == IF bn THEN 0 ELSE b.risk_score.v
    IN  \/ ~an /\ bn
        \/ an = bn /\ as > bs
        \/ an = bn /\ as = bs /\ a.sample_size > b.sample_size

\* list.sort is stable: a row goes after every row that does not sort
\* strictly after it
RECURSIVE InsertRow(_, _)
InsertRow(sorted, row) ==
    IF sorted = <<>> THEN <<row>>
    ELSE IF SortsBefore(row, Head(sorted)) THEN <<row>> \o sorted
    ELSE <<Head(sorted)>> \o InsertRow(Tail(sorted), row)

RECURSIVE SortRows(_, _)
SortRows(rows, sorted) ==
    IF rows = <<>> THEN sorted
    ELSE SortRows(Tail(rows), InsertRow(sorted, Head(rows)))

compute_region_risks(recs, level, min_samples, limit) ==
    IF recs = <<>> THEN <<>>
    ELSE LET rows == RegionRows(GroupKeys(recs, level, {}), recs, level, min_samples)
         IN  Take(SortRows(rows, <<>>), limit)

-----------------------------------------------------------------------------
(* Bounds of the model and the upstream data it draws from *)

\* longest price list compute_risk is called with
MaxLen == 3

\* most items in one pricing response normalized on its own
MaxItems == 2

\* largest size fetch_price_records is called with on its own
MaxSize == 3

\* most records compute_region_risks is called with on its own
MaxRecords == 5

\* largest min_samples compute_region_risks is called with on its own
MaxMinSamples == 2

\* largest limit compute_region_risks is called with on its own
MaxLimit == 2

\* the longest list of reports the alert path is given
MaxReports == 3

DEFAULT_COMMODITIES == <<"rice", "milk", "eggs", "oil", "wheat">>

\* size=50, the default of fetch_price_records
DefaultSize == 50

\* limit=5 of search_product_codes, as fetch_price_records calls it
CodeLimit == 5

\* min_samples=5 and limit=5, the defaults of compute_region_risks
DefaultMinSamples == 5

DefaultLimit == 5

\* Finite prices, in price units: 309 and 647 have a cv just above 0.5, and
\* 7, 10, 13 a cv of exactly 0.3
PriceUnits == {-1, 0, 1, 2, 3, 7, 10, 13, 309, 647}

ScorePrices == {Fl(n) : n \in PriceUnits} \cup {INF, NAN}

Item(price, currency, location, date) ==
    [t |-> "dict", price |-> price, currency |-> currency,
     location |-> location, date |-> date]

Loc(country, city) == [t |-> "dict", country |-> country, city |-> city]

NoLoc == [t |-> "null", country |-> JNull, city |-> JNull]

\* a location that is a string, not an object
StrLoc == [t |-> "str", country |-> JNull, city |-> JNull]

Paris == Loc(JStr("FR"), JStr(" Paris"))

Day == JStr("2024-05-01")

\* an item that is not an object
NonDictItem ==
    [t |-> "str", price |-> JNull, currency |-> JNull, location |-> NoLoc,
     date |-> JNull]

RawPrices ==
    {JNum(10), JStr("10"), JStr(" 30 "), JNull, JStr("bad"), JList, JStr("nan"),
     JInf, JBigInt}

RawCurrencies == {JNull, JStr(" EUR "), JNum(978)}

RawLocations == {NoLoc, StrLoc, Loc(JNull, JStr("  ")), Loc(JNum(33), JStr("Lyon"))}

RawDates == {JNull, JNum(20240501)}

\* Raw items: a well-formed one with each price shape, and a priced one with
\* each shape of the other fields
RawItems ==
    {Item(p, JStr("USD"), Paris, Day) : p \in RawPrices}
    \cup {Item(JNum(10), c, Paris, Day) : c \in RawCurrencies}
    \cup {Item(JNum(10), JStr("USD"), l, Day) : l \in RawLocations}
    \cup {Item(JNum(10), JStr("USD"), Paris, d) : d \in RawDates}
    \cup {NonDictItem}

Ok(items) == [t |-> "ok", items |-> items]

TransportError == [t |-> "error", items |-> <<>>]

\* The pricing responses the collector is run against
ResponseA == Ok(<<Item(JNum(20), JStr("EUR"), Paris, Day)>>)

ResponseB ==
    Ok(<<Item(JNum(10), JStr("EUR"), Paris, Day),
         Item(JNum(30), JStr("USD"), Loc(JStr("US"), JNull), Day)>>)

Responses == {TransportError, ResponseA, ResponseB}

Found(products) == [t |-> "ok", products |-> products]

SearchError == [t |-> "error", products |-> <<>>]

\* The product-search answers: a batch run is checked against a failed
\* search, one code and two codes; a single fetch also against three codes
\* and a product whose code is a number
SearchAnswers(e) ==
    {SearchError, Found(<<JStr("111")>>),
     Found(<<JStr("111"), JStr("abc"), JStr("111"), JNull, JStr("222")>>)}
    \cup IF e = "fetch_price_records"
         THEN {Found(<<JStr("222"), JStr("111"), JStr("333")>>),
               Found(<<JStr("111"), JNum(222)>>)}
         ELSE {}

-----------------------------------------------------------------------------
(* analyze_commodity *)

\* currencies = [r["currency"] for r in records if r.get("currency")]
RECURSIVE Currencies(_)
Currencies(recs) ==
    IF recs = <<>> THEN <<>>
    ELSE (IF Head(recs).currency # "" THEN <<Head(recs).currency>> ELSE <<>>)
         \o Currencies(Tail(recs))

\* currencies.count(c)
Count(cs, c) == Cardinality({x \in DOMAIN cs : cs[x] = c})

\* max(set(currencies), key=currencies.count) if currencies else "": max
\* returns the first of the most frequent currencies in the iteration order of
\* the set, which for strings follows their hashes, randomized per process.
\* So every most frequent currency is a possible result.
MostCommonCurrency(recs) ==
    LET cs == Currencies(recs)
    IN  IF cs = <<>> THEN {""}
        ELSE {c \in Range(cs) : \A d \in Range(cs) : Count(cs, d) <= Count(cs, c)}

RecordPrices(recs) == [x \in DOMAIN recs |-> recs[x].price]

Report(commodity, recs, currency) ==
    LET ps == RecordPrices(recs)
        r == compute_risk(ps)
    IN  [name |-> commodity,
         mean_price |-> IF ps = <<>> THEN None ELSE Some(MeanPrice(ps)),
         risk_score |-> r.risk_score,
         status |-> r.status,
         currency |-> IF currency = "" THEN "N/A" ELSE currency,
         sample_size |-> Len(ps),
         regions |->
            [by_country |-> compute_region_risks(recs, "country",
                                DefaultMinSamples, DefaultLimit),
             by_city |-> compute_region_risks(recs, "city",
                                DefaultMinSamples, DefaultLimit)]]

-----------------------------------------------------------------------------
(* The state machine.  Indices i and k count from 0, as enumerate does.     *)

NoRegionIn == [records |-> <<>>, level |-> "country", min_samples |-> 0, limit |-> 0]

IdleAll == i = 0 /\ results = <<>> /\ allLog = <<>>

IdleCollect ==
    /\ size = 0 /\ codes = <<>> /\ per_code = 0 /\ k = 0 /\ out = <<>>
    /\ records = <<>> /\ codeLog = <<>> /\ queried = <<>>

IdleByCode == response = TransportError /\ normalized = <<>>

IdleRisk == prices = <<>> /\ risk = NoData

IdleRegion == region_in = NoRegionIn /\ region_rows = <<>>

IdleAlert ==
    /\ commodities = <<>> /\ include_warnings = FALSE /\ configured = FALSE
    /\ filtered = <<>> /\ body = None

\* mutant: the pause starts one iteration late
PauseBeforeOffByOne(idx) == idx > 1

\* if i > 0: time.sleep(...), in both loops
PauseBefore(idx) == idx > 0

\* mutant: the loop goes on when the count equals size
EnoughRecordsStrict(o, sz) == Len(o) > sz

\* len(out) >= size: break
EnoughRecords(o, sz) == Len(o) >= sz

\* per_code = max(5, size // max(1, len(codes)))
PerCode(sz, cs) == Max(5, sz \div Max(1, Len(cs)))

\* return out[:size]
Truncate(o, sz) == Take(o, sz)

\* where control goes when fetch_price_records returns
AfterFetch == IF entry = "fetch_price_records" THEN "done" ELSE "analyze"

\* analyze_all: time.sleep(1) before every commodity but the first
AnalyzeAllSleep ==
    /\ pc = "all_top"
    /\ i < Len(DEFAULT_COMMODITIES)
    /\ PauseBefore(i)
    /\ allLog' = Append(allLog, "sleep")
    /\ pc' = "all_call"
    /\ UNCHANGED <<entry, i, results, collectVars, byCodeVars, riskVars, regionVars, alertVars>>

\* analyze_all: analyze_commodity(commodity) is called, which first calls
\* fetch_price_records(commodity) with the default size
AnalyzeAllCall ==
    /\ i < Len(DEFAULT_COMMODITIES)
    /\ \/ pc = "all_call"
       \/ pc = "all_top" /\ ~PauseBefore(i)
    /\ allLog' = Append(allLog, "call")
    /\ size' = DefaultSize
    /\ codes' = <<>> /\ per_code' = 0 /\ k' = 0 /\ out' = <<>>
    /\ records' = <<>> /\ codeLog' = <<>> /\ queried' = <<>>
    /\ pc' = "search"
    /\ UNCHANGED <<entry, i, results, byCodeVars, riskVars, regionVars, alertVars>>

\* analyze_all: the loop is over, return results
AnalyzeAllReturn ==
    /\ pc = "all_top"
    /\ i = Len(DEFAULT_COMMODITIES)
    /\ pc' = "done"
    /\ UNCHANGED <<entry, allVars, collectVars, byCodeVars, riskVars, regionVars, alertVars>>

\* fetch_price_records: codes = search_product_codes(commodity, limit=5);
\* if not codes: return []
SearchCodes ==
    /\ pc = "search"
    /\ \E answer \in SearchAnswers(entry) :
          LET cs == search_product_codes(answer, CodeLimit)
          IN  /\ codes' = cs
              /\ IF cs = <<>>
                 THEN /\ per_code' = per_code
                      /\ records' = <<>>
                      /\ pc' = AfterFetch
                 ELSE /\ per_code' = PerCode(size, cs)
                      /\ records' = records
                      /\ pc' = "code_top"
    /\ UNCHANGED <<entry, allVars, size, k, out, codeLog, queried, byCodeVars,
                   riskVars, regionVars, alertVars>>

\* fetch_price_records: time.sleep(0.5) before every code but the first
CodeSleep ==
    /\ pc = "code_top"
    /\ k < Len(codes)
    /\ PauseBefore(k)
    /\ codeLog' = Append(codeLog, "sleep")
    /\ pc' = "code_call"
    /\ UNCHANGED <<entry, allVars, size, codes, per_code, k, out, records, queried,
                   byCodeVars, riskVars, regionVars, alertVars>>

\* fetch_price_records: out.extend(fetch_price_records_by_code(code, ...));
\* if len(out) >= size: break.  The pricing source answers as it likes.
CodeQuery ==
    /\ k < Len(codes)
    /\ \/ pc = "code_call"
       \/ pc = "code_top" /\ ~PauseBefore(k)
    /\ \E resp \in Responses :
          LET recs == fetch_price_records_by_code(codes[k + 1], resp)
          IN  /\ out' = out \o recs
              /\ queried' = Append(queried, [code |-> codes[k + 1], recs |-> recs])
              /\ pc' = IF EnoughRecords(out \o recs, size) THEN "code_ret"
                       ELSE "code_top"
    /\ codeLog' = Append(codeLog, "query")
    /\ k' = k + 1
    /\ UNCHANGED <<entry, allVars, size, codes, per_code, records, byCodeVars,
                   riskVars, regionVars, alertVars>>

\* fetch_price_records: return out[:size], after the break or the last code
FetchReturn ==
    /\ \/ pc = "code_ret"
       \/ pc = "code_top" /\ k = Len(codes)
    /\ records' = Truncate(out, size)
    /\ pc' = AfterFetch
    /\ UNCHANGED <<entry, allVars, size, codes, per_code, k, out, codeLog, queried,
                   byCodeVars, riskVars, regionVars, alertVars>>

\* mutant: a commodity with no records is left out of results
AnalyzeCommodityDropsEmpty ==
    /\ pc = "analyze"
    /\ \E currency \in MostCommonCurrency(records) :
          results' = IF records = <<>> THEN results
                     ELSE Append(results,
                                 Report(DEFAULT_COMMODITIES[i + 1], records, currency))
    /\ i' = i + 1
    /\ pc' = "all_top"
    /\ size' = 0 /\ codes' = <<>> /\ per_code' = 0 /\ k' = 0 /\ out' = <<>>
    /\ records' = <<>> /\ codeLog' = <<>> /\ queried' = <<>>
    /\ UNCHANGED <<entry, allLog, byCodeVars, riskVars, regionVars, alertVars>>

\* analyze_commodity, from the records on: the report is built and, in
\* analyze_all, appended to results; the locals of the call are gone
AnalyzeCommodity ==
    /\ pc = "analyze"
    /\ \E currency \in MostCommonCurrency(records) :
          results' = Append(results,
                            Report(DEFAULT_COMMODITIES[i + 1], records, currency))
    /\ i' = i + 1
    /\ pc' = "all_top"
    /\ size' = 0 /\ codes' = <<>> /\ per_code' = 0 /\ k' = 0 /\ out' = <<>>
    /\ records' = <<>> /\ codeLog' = <<>> /\ queried' = <<>>
    /\ UNCHANGED <<entry, allLog, byCodeVars, riskVars, regionVars, alertVars>>

\* fetch_price_records_by_code, called on its own
FetchByCode ==
    /\ pc = "by_code"
    /\ normalized' = fetch_price_records_by_code("111", response)
    /\ pc' = "done"
    /\ UNCHANGED <<entry, allVars, collectVars, response, riskVars, regionVars, alertVars>>

\* compute_risk, called on its own
ComputeRisk ==
    /\ pc = "risk"
    /\ risk' = compute_risk(prices)
    /\ pc' = "done"
    /\ UNCHANGED <<entry, allVars, collectVars, byCodeVars, prices, regionVars, alertVars>>

\* compute_region_risks, called on its own
ComputeRegionRisks ==
    /\ pc = "region"
    /\ region_rows' = compute_region_risks(region_in.records, region_in.level,
                                           region_in.min_samples, region_in.limit)
    /\ pc' = "done"
    /\ UNCHANGED <<entry, allVars, collectVars, byCodeVars, riskVars, region_in, alertVars>>

-----------------------------------------------------------------------------
(* The alert path: the severity selector of send_supply_chain_alert          *)
(* (src/src/server.py) and of main (src/src/agent.py), and the alert body    *)
(* of _format_alert_body (src/src/alerts.py).  The body is the list of its   *)
(* lines, which the code joins with newlines.                                *)

DigitStr(d) == <<"0", "1", "2", "3", "4", "5", "6", "7", "8", "9">>[d + 1]

\* str(n) for a whole number n >= 0
RECURSIVE IntStr(_)
IntStr(n) == IF n < 10 THEN DigitStr(n) ELSE IntStr(n \div 10) \o DigitStr(n % 10)

\* f"{risk:.4f}" for a score of r/10000
Fixed4(r) ==
    LET a == IF r < 0 THEN 0 - r ELSE r
        f == a % 10000
    IN  (IF r < 0 THEN "-" ELSE "") \o IntStr(a \div 10000) \o "."
        \o DigitStr(f \div 1000) \o DigitStr((f \div 100) % 10)
        \o DigitStr((f \div 10) % 10) \o DigitStr(f % 10)

\* str(mean) for a float that round(_, 2) returned: h/100 is written with
\* its shortest decimals, and at least one
FloatStr(m) ==
    IF m.t = "fin"
    THEN LET a == IF m.v < 0 THEN 0 - m.v ELSE m.v
             f == a % 100
         IN  (IF m.v < 0 THEN "-" ELSE "") \o IntStr(a \div 100) \o "."
             \o DigitStr(f \div 10) \o (IF f % 10 = 0 THEN "" ELSE DigitStr(f % 10))
    ELSE IF m.t = "nan" THEN "nan"
    ELSE IF m.t = "inf" THEN "inf" ELSE "-inf"

AlertHeader == <<"Supply Chain Resilience Alert", "==============================", "">>

AlertLine(c) ==
    LET risk_str == IF c.risk_score # None THEN Fixed4(c.risk_score.v) ELSE "N/A"
        mean_str == IF c.mean_price # None
                    THEN FloatStr(c.mean_price.v) \o " " \o c.currency ELSE "N/A"
    IN  "- " \o c.name \o ": " \o c.status \o " (risk=" \o risk_str
        \o ", avg=" \o mean_str \o ", n=" \o IntStr(c.sample_size) \o ")"

\* the statuses _format_alert_body keeps
Listed(status, severity_filter) ==
    /\ status \in {"CRITICAL", "WARNING"}
    /\ ~(status = "WARNING" /\ severity_filter # "WARNING")

RECURSIVE AlertLines(_, _)
AlertLines(cs, severity_filter) ==
    IF cs = <<>> THEN <<>>
    ELSE (IF Listed(Head(cs).status, severity_filter)
          THEN <<AlertLine(Head(cs))>> ELSE <<>>)
         \o AlertLines(Tail(cs), severity_filter)

_format_alert_body(cs, severity_filter) == AlertHeader \o AlertLines(cs, severity_filter)

\* mutant: the selector keeps WARNING reports in both modes
MatchesIgnoringMode(status, warnings) == status \in {"CRITICAL", "WARNING"}

\* the statuses the selector of send_supply_chain_alert keeps
Matches(status, warnings) ==
    IF warnings THEN status \in {"CRITICAL", "WARNING"} ELSE status = "CRITICAL"

RECURSIVE SelectBySeverity(_, _)
SelectBySeverity(cs, warnings) ==
    IF cs = <<>> THEN <<>>
    ELSE (IF Matches(Head(cs).status, warnings) THEN <<Head(cs)>> ELSE <<>>)
         \o SelectBySeverity(Tail(cs), warnings)

\* the selector of main, which has the CRITICAL-only mode alone
RECURSIVE SelectCritical(_)
SelectCritical(cs) ==
    IF cs = <<>> THEN <<>>
    ELSE (IF Head(cs).status = "CRITICAL" THEN <<Head(cs)>> ELSE <<>>)
         \o SelectCritical(Tail(cs))

SeverityFilter(warnings) == IF warnings THEN "WARNING" ELSE "CRITICAL"

\* send_supply_chain_alert and main return early when nothing is configured
AlertNotConfigured ==
    /\ pc = "alert_top"
    /\ ~configured
    /\ pc' = "done"
    /\ UNCHANGED <<entry, allVars, collectVars, byCodeVars, riskVars, regionVars,
                   alertVars>>

\* send_supply_chain_alert: the selector
ServerSelect ==
    /\ pc = "alert_top"
    /\ entry = "send_supply_chain_alert"
    /\ configured
    /\ filtered' = SelectBySeverity(commodities, include_warnings)
    /\ pc' = "alert_filtered"
    /\ UNCHANGED <<entry, allVars, collectVars, byCodeVars, riskVars, regionVars,
                   commodities, include_warnings, configured, body>>

\* main: the selector
AgentSelect ==
    /\ pc = "alert_top"
    /\ entry = "main"
    /\ configured
    /\ filtered' = SelectCritical(commodities)
    /\ pc' = "alert_filtered"
    /\ UNCHANGED <<entry, allVars, collectVars, byCodeVars, riskVars, regionVars,
                   commodities, include_warnings, configured, body>>

\* nothing was selected: no alert is sent
NothingToAlert ==
    /\ pc = "alert_filtered"
    /\ filtered = <<>>
    /\ pc' = "done"
    /\ UNCHANGED <<entry, allVars, collectVars, byCodeVars, riskVars, regionVars,
                   alertVars>>

\* send_report_alert formats the body of the selected reports
SendReportAlert ==
    /\ pc = "alert_filtered"
    /\ filtered # <<>>
    /\ body' = Some(_format_alert_body(filtered, SeverityFilter(include_warnings)))
    /\ pc' = "done"
    /\ UNCHANGED <<entry, allVars, collectVars, byCodeVars, riskVars, regionVars,
                   commodities, include_warnings, configured, filtered>>

-----------------------------------------------------------------------------
(* Specifications *)

\* analyze_all()
Init ==
    /\ pc = "all_top" /\ entry = "analyze_all"
    /\ IdleAll /\ IdleCollect /\ IdleByCode /\ IdleRisk /\ IdleRegion
    /\ IdleAlert

Next ==
    \/ AnalyzeAllSleep
    \/ AnalyzeAllCall
    \/ AnalyzeAllReturn
    \/ SearchCodes
    \/ CodeSleep
    \/ CodeQuery
    \/ FetchReturn
    \/ AnalyzeCommodity

Spec == Init /\ [][Next]_vars

\* fetch_price_records(commodity, size) for a size of 0..MaxSize
InitCollect ==
    /\ pc = "search" /\ entry = "fetch_price_records"
    /\ size \in 0..MaxSize
    /\ codes = <<>> /\ per_code = 0 /\ k = 0 /\ out = <<>>
    /\ records = <<>> /\ codeLog = <<>> /\ queried = <<>>
    /\ IdleAll /\ IdleByCode /\ IdleRisk /\ IdleRegion
    /\ IdleAlert

NextCollect == SearchCodes \/ CodeSleep \/ CodeQuery \/ FetchReturn

SpecCollect == InitCollect /\ [][NextCollect]_vars

\* fetch_price_records_by_code(code) for every response of up to MaxItems
\* raw items
InitByCode ==
    /\ pc = "by_code" /\ entry = "fetch_price_records_by_code"
    /\ response \in {TransportError} \cup {Ok(its) : its \in SeqsUpTo(RawItems, MaxItems)}
    /\ normalized = <<>>
    /\ IdleAll /\ IdleCollect /\ IdleRisk /\ IdleRegion
    /\ IdleAlert

NextByCode == FetchByCode

SpecByCode == InitByCode /\ [][NextByCode]_vars

\* compute_risk(prices) for every list of up to MaxLen prices
InitRisk ==
    /\ pc = "risk" /\ entry = "compute_risk"
    /\ prices \in SeqsUpTo(ScorePrices, MaxLen)
    /\ risk = NoData
    /\ IdleAll /\ IdleCollect /\ IdleByCode /\ IdleRegion
    /\ IdleAlert

NextRisk == ComputeRisk

SpecRisk == InitRisk /\ [][NextRisk]_vars

Rec(price, country, city) ==
    [price |-> Fl(price), currency |-> "EUR", country |-> country, city |-> city,
     date |-> "2024-05-01", product_code |-> "111"]

\* The records compute_region_risks is run against: two cities of one
\* country and one of another
RegionRecords ==
    {Rec(1, "FR", "Paris"), Rec(3, "FR", "Paris"), Rec(3, "FR", "Lyon"),
     Rec(3, "DE", "Berlin")}

\* compute_region_risks(records, level, min_samples, limit) for every list
\* of up to MaxRecords records
InitRegion ==
    /\ pc = "region" /\ entry = "compute_region_risks"
    /\ region_in \in [records : SeqsUpTo(RegionRecords, MaxRecords),
                      level : {"country", "city"},
                      min_samples : 0..MaxMinSamples,
                      limit : 0..MaxLimit]
    /\ region_rows = <<>>
    /\ IdleAll /\ IdleCollect /\ IdleByCode /\ IdleRisk
    /\ IdleAlert

NextRegion == ComputeRegionRisks

SpecRegion == InitRegion /\ [][NextRegion]_vars

\* The reports the alert path is run against, each the report
\* analyze_commodity builds from the records of that commodity
PricedAt(ps) == [x \in DOMAIN ps |-> Rec(ps[x], "FR", "Paris")]

AlertReports ==
    {Report("rice", PricedAt(<<309, 647>>), "EUR"),
     Report("milk", PricedAt(<<1, 2, 3>>), "USD"),
     Report("eggs", PricedAt(<<10, 10>>), "EUR"),
     Report("oil", <<>>, ""),
     Report("wheat", PricedAt(<<1, 3>>), "EUR")}

\* send_supply_chain_alert(include_warnings) and main() for every list of up
\* to MaxReports reports
InitAlert ==
    /\ pc = "alert_top"
    /\ \/ entry = "send_supply_chain_alert" /\ include_warnings \in BOOLEAN
       \/ entry = "main" /\ include_warnings = FALSE
    /\ commodities \in SeqsUpTo(AlertReports, MaxReports)
    /\ configured \in BOOLEAN
    /\ filtered = <<>> /\ body = None
    /\ IdleAll /\ IdleCollect /\ IdleByCode /\ IdleRisk /\ IdleRegion

NextAlert ==
    \/ AlertNotConfigured
    \/ ServerSelect
    \/ AgentSelect
    \/ NothingToAlert
    \/ SendReportAlert

SpecAlert == InitAlert /\ [][NextAlert]_vars

-----------------------------------------------------------------------------
(* Claims *)

Last(q) == q[Len(q)]

\* A measure of the work analyze_all has left: every step lowers it
Variant ==
    100 * (Len(DEFAULT_COMMODITIES) - i)
    + CASE pc = "all_top" -> 40
        [] pc = "all_call" -> 39
        [] pc = "search" -> 38
        [] pc = "code_top" -> 12 + 3 * (CodeLimit - k)
        [] pc = "code_call" -> 11 + 3 * (CodeLimit - k)
        [] pc = "code_ret" -> 9
        [] pc = "analyze" -> 5
        [] OTHER -> 0

\* Some step of analyze_all is possible: each position of the thread has a
\* step whose condition holds, the loop counters being within their lists
NotStuck ==
    CASE pc = "all_top" -> i <= Len(DEFAULT_COMMODITIES)
      [] pc = "all_call" -> i < Len(DEFAULT_COMMODITIES)
      [] pc = "search" -> SearchAnswers(entry) # {}
      [] pc = "code_top" -> k <= Len(codes)
      [] pc = "code_call" -> k < Len(codes)
      [] pc = "code_ret" -> TRUE
      [] pc = "analyze" -> MostCommonCurrency(records) # {}
      [] OTHER -> pc = "done"

\* C1: analyze_all always completes (it is never stuck before it returns and
\* every step lowers Variant), results holds one report per commodity of
\* DEFAULT_COMMODITIES processed so far, in that order, so exactly five in
\* list order when it returns, and a fetch that failed or returned nothing
\* gives a report with status NO_DATA and sample_size 0
C1_AnalyzeAllCompletes ==
    /\ []NotStuck
    /\ [][Variant' < Variant]_vars
    /\ [](/\ Len(results) = i
          /\ \A x \in DOMAIN results : results[x].name = DEFAULT_COMMODITIES[x]
          /\ pc = "done" => Len(results) = Len(DEFAULT_COMMODITIES))
    /\ [][pc = "analyze" /\ records = <<>>
            => /\ Len(results') = Len(results) + 1
               /\ Last(results').status = "NO_DATA"
               /\ Last(results').sample_size = 0]_vars

C1_Witness ==
    /\ pc = "done"
    /\ Len(results) = 5
    /\ results[2].status = "NO_DATA" /\ results[2].sample_size = 0
    /\ results[1].status = "CRITICAL"
    /\ results[3].status = "STABLE"

Alternates(log, what) ==
    \A x \in DOMAIN log : log[x] = IF x % 2 = 1 THEN what ELSE "sleep"

\* C2: in both loops the first call is made with no delay before it and any
\* two consecutive calls have a delay between them: the history of each loop
\* alternates call, sleep, call, ...
C2_PacedCalls ==
    /\ Alternates(allLog, "call")
    /\ Alternates(codeLog, "query")

C2_Witness ==
    /\ allLog = <<"call", "sleep", "call", "sleep", "call">>
    /\ codeLog = <<"query", "sleep", "query">>

RECURSIVE Flatten(_)
\* The concatenation of the per-code results, in the order of the queries
Flatten(q) == IF q = <<>> THEN <<>> ELSE Head(q).recs \o Flatten(Tail(q))

\* The number of records accumulated before the x-th query
CountBefore(x) == Len(Flatten(SubSeq(queried, 1, x - 1)))

CollectorBasics ==
    /\ Len(queried) <= Len(codes)
    /\ \A x \in DOMAIN queried : queried[x].code = codes[x]
    /\ pc = "done" =>
          /\ Len(queried) = Len(codes) \/ Len(Flatten(queried)) >= size
          /\ Len(records) <= size
          /\ records = Take(Flatten(queried), size)

\* C3 as stated: the codes are queried in resolved order, no code is queried
\* once the accumulated count has reached size, and the result is the first
\* size records of the concatenation of the per-code results
C3_Original ==
    /\ CollectorBasics
    /\ \A x \in DOMAIN queried : CountBefore(x) < size

\* C3 as amended: the first resolved code is always queried, also for size 0;
\* no later code is queried once the accumulated count has reached size
C3_StopsOnceReached ==
    /\ CollectorBasics
    /\ \A x \in DOMAIN queried : x > 1 => CountBefore(x) < size
    /\ pc = "done" /\ codes # <<>> => Len(queried) >= 1

C3_Witness ==
    /\ pc = "done"
    /\ size = 2
    /\ Len(codes) = 3
    /\ Len(queried) = 2
    /\ Len(Flatten(queried)) = 3
    /\ Len(records) = 2

\* An item every field of which has the documented shape: a number or a
\* numeric string for a price, strings or nothing elsewhere
WellFormed(item) ==
    /\ item.t = "dict"
    /\ item.price.t = "num" \/ (item.price.t = "str" /\ item.price.s \in {"10", " 30 "})
    /\ item.currency.t \in {"null", "str"}
    /\ item.location.t \in {"null", "dict"}
    /\ item.location.country.t \in {"null", "str"}
    /\ item.location.city.t \in {"null", "str"}
    /\ item.date.t \in {"null", "str"}

\* C4: a malformed item of a pricing response affects only itself: every
\* well-formed item of the response still yields its record
C4_BadItemAffectsOnlyItself ==
    pc = "done" /\ entry = "fetch_price_records_by_code" /\ response.t = "ok" =>
        \A x \in DOMAIN response.items :
            WellFormed(response.items[x]) =>
                NormalizeItem(response.items[x], "111").rec \in Range(normalized)

\* C5: every record produced by normalization has a finite price
C5_PricesAreFinite ==
    \A x \in DOMAIN normalized : normalized[x].price.fin

\* C6 as stated: the status follows from the returned, rounded risk_score by
\* strict thresholds at 0.5 and 0.3
C6_Original ==
    pc = "done" /\ risk.risk_score.some =>
        /\ risk.status = "CRITICAL" <=> risk.risk_score.v > 5000
        /\ risk.status = "WARNING" <=>
              risk.risk_score.v > 3000 /\ risk.risk_score.v <= 5000
        /\ risk.status = "STABLE" <=> risk.risk_score.v <= 3000

\* C6 as amended: the status follows from the unrounded cv = stdev/mean by
\* strict thresholds (with S the sum and Q the sum of squares of the n
\* prices, cv^2 = num/den = n(nQ - S^2) / ((n-1) S^2); cv > 0.3 is
\* 100 num > 9 den, that is num > floor(9 den / 100)), so that a cv of exactly 0.5 is
\* WARNING; the rounded risk_score is then at least 0.5 for CRITICAL, within
\* [0.3, 0.5] for WARNING and at most 0.3 for STABLE
C6_StatusFromUnroundedCv ==
    pc = "done" /\ risk.risk_score.some =>
        LET n == Len(prices)
            S == Sum(Values(prices))
            Q == SumSq(Values(prices))
            num == n * (n * Q - S * S)
            den == (n - 1) * S * S
        IN  /\ risk.status = "CRITICAL" <=> 4 * num > den
            /\ risk.status = "WARNING" <=>
                  4 * num <= den /\ num > (9 * den) \div 100
            /\ risk.status = "STABLE" <=> num <= (9 * den) \div 100
            /\ risk.status = "CRITICAL" => risk.risk_score.v >= 5000
            /\ risk.status = "WARNING" =>
                  risk.risk_score.v >= 3000 /\ risk.risk_score.v <= 5000
            /\ risk.status = "STABLE" => risk.risk_score.v <= 3000
            /\ 4 * num = den => risk.status = "WARNING" /\ risk.risk_score.v = 5000

\* a returned risk_score of exactly 0.5 with status CRITICAL
C6_Witness ==
    /\ pc = "done"
    /\ risk.status = "CRITICAL"
    /\ risk.risk_score = Some(5000)

\* C7: compute_risk returns NO_DATA exactly when it returns no risk_score,
\* and it returns NO_DATA for fewer than 2 prices and for a mean <= 0
C7_NoDataIffNoScore ==
    pc = "done" /\ entry = "compute_risk" =>
        /\ risk.status = "NO_DATA" <=> ~risk.risk_score.some
        /\ Len(prices) < 2 => risk.status = "NO_DATA"
        /\ prices # <<>> /\ AllFinite(prices) /\ Sum(Values(prices)) <= 0
              => risk.status = "NO_DATA"

\* two or more finite prices with a zero or negative mean
C7_Witness ==
    /\ pc = "done"
    /\ Len(prices) = 3
    /\ AllFinite(prices)
    /\ Sum(Values(prices)) < 0
    /\ risk = NoData

\* The region key of a record at the level compute_region_risks was
\* called with: the country, or "{city}, {country}"
RegionOf(r) ==
    IF region_in.level = "country" THEN r.country
    ELSE r.city \o ", " \o r.country

Regions == {RegionOf(region_in.records[x]) : x \in DOMAIN region_in.records}

GroupSize(g) ==
    Cardinality({x \in DOMAIN region_in.records : RegionOf(region_in.records[x]) = g})

Qualifying == {g \in Regions : GroupSize(g) >= region_in.min_samples}

Returned == {region_rows[x].region : x \in DOMAIN region_rows}

\* The rank of a group: its risk score and its sample size
RankOfGroup(g) ==
    LET recs == SelectSeq(region_in.records, LAMBDA r : RegionOf(r) = g)
    IN  [risk_score |-> compute_risk(RecordPrices(recs)).risk_score,
         sample_size |-> Len(recs)]

\* a ranks strictly before b: a defined score before none, then the higher
\* score, then the larger sample
RanksBefore(a, b) ==
    \/ a.risk_score.some /\ ~b.risk_score.some
    \/ /\ a.risk_score.some /\ b.risk_score.some
       /\ \/ a.risk_score.v > b.risk_score.v
          \/ a.risk_score.v = b.risk_score.v /\ a.sample_size > b.sample_size

\* C8: the returned rows are ranked (no row ranks strictly before an earlier
\* one), there are at most limit of them, as many as limit and the
\* qualifying groups allow, and no qualifying group left out ranks strictly
\* before a returned one
C8_RankedAndTruncated ==
    pc = "done" /\ entry = "compute_region_risks" =>
        /\ \A a, b \in DOMAIN region_rows :
              a < b => ~RanksBefore(region_rows[b], region_rows[a])
        /\ Len(region_rows) <= region_in.limit
        /\ Len(region_rows) = Min(region_in.limit, Cardinality(Qualifying))
        /\ \A g \in Qualifying \ Returned : \A x \in DOMAIN region_rows :
              ~RanksBefore(RankOfGroup(g), region_rows[x])

\* two scored rows in descending order, and a group without a score, seen
\* first in the records, cut off by the limit
C8_Witness ==
    /\ pc = "done"
    /\ Len(region_rows) = 2
    /\ region_rows[1].risk_score.some /\ region_rows[2].risk_score.some
    /\ region_rows[1].risk_score.v > region_rows[2].risk_score.v
    /\ RegionOf(region_in.records[1]) \in Qualifying \ Returned

\* C9: no returned group has fewer than min_samples samples, and the
\* sample_size of a returned group is the number of input records with its
\* region key
C9_SampleSizes ==
    pc = "done" /\ entry = "compute_region_risks" =>
        \A x \in DOMAIN region_rows :
            /\ region_rows[x].sample_size >= region_in.min_samples
            /\ region_rows[x].sample_size = GroupSize(region_rows[x].region)

\* by city, a group of three returned and a smaller group dropped
C9_Witness ==
    /\ pc = "done"
    /\ region_in.level = "city"
    /\ region_in.min_samples = 2
    /\ \E x \in DOMAIN region_rows : region_rows[x].sample_size = 3
    /\ \E g \in Regions : GroupSize(g) < 2

\* The most frequent non-empty currency of the records, the first met in
\* record order among equally frequent ones, "N/A" when there is none
FirstMostCommon(recs) ==
    LET cs == Currencies(recs)
        best == {x \in DOMAIN cs : \A y \in DOMAIN cs : Count(cs, cs[y]) <= Count(cs, cs[x])}
    IN  IF cs = <<>> THEN "N/A"
        ELSE cs[CHOOSE x \in best : \A y \in best : x <= y]

\* C10: the currency of a report is the most frequent currency of its
\* records, the first met in record order on a tie, "N/A" when there is none
C10_CurrencyFirstMostCommon ==
    [][pc = "analyze" => Last(results').currency = FirstMostCommon(records)]_vars

\* the reports of the filter mode in force
Wanted(c) ==
    IF include_warnings THEN c.status \in {"CRITICAL", "WARNING"}
    ELSE c.status = "CRITICAL"

\* the alert path has run its selector
Selected == entry \in {"send_supply_chain_alert", "main"} /\ configured /\ pc # "alert_top"

\* C11: for every list of commodity reports the severity selector returns
\* exactly the reports matching the filter mode, in their original order:
\* status CRITICAL alone in CRITICAL-only mode, status CRITICAL or WARNING in
\* CRITICAL+WARNING mode; a STABLE or NO_DATA report is never selected; and
\* the alert body, sent when something was selected, has after its heading
\* one line per selected report, in the same order
C11_SeveritySelector ==
    Selected =>
        /\ filtered = SelectSeq(commodities, Wanted)
        /\ \A j \in DOMAIN filtered : filtered[j].status \notin {"STABLE", "NO_DATA"}
        /\ pc = "done" =>
            IF filtered = <<>> THEN body = None
            ELSE body = Some(AlertHeader
                             \o [j \in 1..Len(filtered) |-> AlertLine(filtered[j])])

\* a CRITICAL+WARNING alert went out for three reports of which the middle
\* one was dropped and a WARNING and a CRITICAL one were kept
C11_Witness ==
    /\ Selected /\ pc = "done" /\ body # None
    /\ entry = "send_supply_chain_alert" /\ include_warnings
    /\ Len(commodities) = 3 /\ commodities[2].status \in {"STABLE", "NO_DATA"}
    /\ Len(filtered) = 2
    /\ filtered[1].status = "WARNING" /\ filtered[2].status = "CRITICAL"

====
